---- MODULE Spec2Model ----
(***************************************************************************)
(* atlasctl: the `confluence page get` pipeline (src/src/confluence.ts),   *)
(* the configuration gate in front of it (src/src/config.ts) and the       *)
(* command handler that joins them (cli.ts).                               *)
(*                                                                         *)
(* Strings are sequences of atoms.  An atom is a short piece of text that  *)
(* the code never looks inside: a digit, a letter, "/", "?", a scheme with *)
(* its "://", a path keyword.  startsWith, slice, trim, toLowerCase and    *)
(* the two regular expressions are computed on these sequences.            *)
(***************************************************************************)
EXTENDS Integers, Sequences, FiniteSets, TLC

(***************************************************************************)
(* Bounds of the model.                                                    *)
(***************************************************************************)
MaxComments == 3
MaxPageSize == 2

(***************************************************************************)
(* String primitives.                                                      *)
(***************************************************************************)
Digits == {"1", "2"}
Space == " "

StartsWith(s, p) ==
    /\ Len(s) >= Len(p)
    /\ \A i \in 1..Len(p) : s[i] = p[i]

Slice(s, n) == SubSeq(s, n + 1, Len(s))

RECURSIVE TrimStart(_)
TrimStart(s) ==
    IF s # <<>> /\ Head(s) = Space THEN TrimStart(Tail(s)) ELSE s

RECURSIVE TrimEnd(_)
TrimEnd(s) ==
    IF s # <<>> /\ s[Len(s)] = Space
    THEN TrimEnd(SubSeq(s, 1, Len(s) - 1))
    ELSE s

Trim(s) == TrimEnd(TrimStart(s))

\* /^\d+$/
IsAllDigits(s) == s # <<>> /\ \A i \in 1..Len(s) : s[i] \in Digits

LowerAtom(c) ==
    CASE c = "A" -> "a"
      [] c = "B" -> "b"
      [] OTHER -> c

ToLowerCase(s) == [i \in 1..Len(s) |-> LowerAtom(s[i])]

\* index of the first atom of s at or after position i that is in stop,
\* Len(s) + 1 when there is none
RECURSIVE IndexOfAny(_, _, _)
IndexOfAny(s, stop, i) ==
    IF i > Len(s) THEN Len(s) + 1
    ELSE IF s[i] \in stop THEN i
    ELSE IndexOfAny(s, stop, i + 1)

(***************************************************************************)
(* new URL(value): the part of the URL parser that parsePageInput and       *)
(* normalizeSite read.  A scheme is needed; "https://" and "http://" are   *)
(* special schemes (the host is lower-cased and must not be empty, and the *)
(* scheme's default port is dropped), "foo://" stands for the others (the  *)
(* host is kept as written and may be empty).  host is hostname followed   *)
(* by the port that was kept.                                              *)
(***************************************************************************)
SpecialSchemes == {"https://", "http://"}
OtherSchemes == {"foo://"}
Schemes == SpecialSchemes \cup OtherSchemes

Ports == {":443", ":80", ":8443"}

DefaultPort(scheme) ==
    CASE scheme = "https://" -> ":443"
      [] scheme = "http://" -> ":80"
      [] OTHER -> ""

NotUrl == [ok |-> FALSE, host |-> <<>>, hostname |-> <<>>, pathname |-> <<>>,
           search |-> <<>>]

RECURSIVE SkipSlashes(_)
SkipSlashes(s) ==
    IF s # <<>> /\ Head(s) = "/" THEN SkipSlashes(Tail(s)) ELSE s

NewURL(value) ==
    IF value = <<>> \/ value[1] \notin Schemes THEN NotUrl
    ELSE LET rest == IF value[1] \in SpecialSchemes
                     THEN SkipSlashes(Tail(value))
                     ELSE Tail(value)
             hEnd == IndexOfAny(rest, {"/", "?"}, 1)
             authority == SubSeq(rest, 1, hEnd - 1)
             hasPort == authority # <<>> /\ authority[Len(authority)] \in Ports
             rawHost == IF hasPort
                        THEN SubSeq(authority, 1, Len(authority) - 1)
                        ELSE authority
             port == IF hasPort /\ authority[Len(authority)] # DefaultPort(value[1])
                     THEN <<authority[Len(authority)]>>
                     ELSE <<>>
             qAt == IndexOfAny(rest, {"?"}, hEnd)
             special == value[1] \in SpecialSchemes
             hostname == IF special THEN ToLowerCase(rawHost) ELSE rawHost
         IN  IF (\E i \in 1..Len(rawHost) : rawHost[i] \in Ports \cup {Space, "@"})
                \/ (special /\ rawHost = <<>>)
             THEN NotUrl
             ELSE [ok |-> TRUE,
                   host |-> hostname \o port,
                   hostname |-> hostname,
                   pathname |-> SubSeq(rest, hEnd, qAt - 1),
                   search |-> SubSeq(rest, qAt + 1, Len(rest))]

\* url.pathname.match(/\/pages\/(\d+)(?:\/|$)/)?.[1]
RECURSIVE DigitRunEnd(_, _)
DigitRunEnd(s, i) ==
    IF i <= Len(s) /\ s[i] \in Digits THEN DigitRunEnd(s, i + 1) ELSE i - 1

PagesMatchAt(p, i) ==
    /\ i + 3 <= Len(p)
    /\ p[i] = "/" /\ p[i + 1] = "pages" /\ p[i + 2] = "/"
    /\ LET e == DigitRunEnd(p, i + 3)
       IN  e >= i + 3 /\ (e = Len(p) \/ p[e + 1] = "/")

Absent == [present |-> FALSE, value |-> <<>>]
Some(v) == [present |-> TRUE, value |-> v]

MatchPagesPath(p) ==
    LET hits == {i \in 1..Len(p) : PagesMatchAt(p, i)}
    IN  IF hits = {} THEN Absent
        ELSE LET i == CHOOSE k \in hits : \A j \in hits : k <= j
             IN  Some(SubSeq(p, i + 3, DigitRunEnd(p, i + 3)))

\* url.searchParams.get(name): the value of the first name=value pair
RECURSIVE SearchParamsGet(_, _)
SearchParamsGet(search, name) ==
    IF search = <<>> THEN Absent
    ELSE LET amp == IndexOfAny(search, {"&"}, 1)
             pair == SubSeq(search, 1, amp - 1)
             eq == IndexOfAny(pair, {"="}, 1)
             key == SubSeq(pair, 1, eq - 1)
             val == SubSeq(pair, eq + 1, Len(pair))
         IN  IF pair # <<>> /\ key = name THEN Some(val)
             ELSE SearchParamsGet(SubSeq(search, amp + 1, Len(search)), name)

(***************************************************************************)
(* parsePageInput and resolvePageIdForSite.  A call either returns         *)
(* (threw = "none") or throws the named error.                             *)
(***************************************************************************)
Returned(pageId, host) ==
    [threw |-> "none", pageId |-> pageId, hostFromUrl |-> host]
Threw(kind) ==
    [threw |-> kind, pageId |-> <<>>, hostFromUrl |-> Absent]

\* parsePageInput reading the query parameter before the path
parsePageInputQueryFirst(idOrUrl) ==
    LET value == Trim(idOrUrl)
    IN  IF IsAllDigits(value) THEN Returned(value, Absent)
        ELSE LET url == NewURL(value)
             IN  IF ~url.ok THEN Threw("InvalidIdentifier")
                 ELSE LET fromPath == MatchPagesPath(url.pathname)
                          fromQuery == SearchParamsGet(url.search, <<"pageId">>)
                          pageId == IF fromQuery.present THEN fromQuery ELSE fromPath
                      IN  IF ~pageId.present \/ pageId.value = <<>>
                             \/ ~IsAllDigits(pageId.value)
                          THEN Threw("NoPageId")
                          ELSE Returned(pageId.value, Some(ToLowerCase(url.host)))

parsePageInput(idOrUrl) ==
    LET value == Trim(idOrUrl)
    IN  IF IsAllDigits(value) THEN Returned(value, Absent)
        ELSE LET url == NewURL(value)
             IN  IF ~url.ok THEN Threw("InvalidIdentifier")
                 ELSE LET fromPath == MatchPagesPath(url.pathname)
                          fromQuery == SearchParamsGet(url.search, <<"pageId">>)
                          pageId == IF fromPath.present THEN fromPath ELSE fromQuery
                      IN  IF ~pageId.present \/ pageId.value = <<>>
                             \/ ~IsAllDigits(pageId.value)
                          THEN Threw("NoPageId")
                          ELSE Returned(pageId.value, Some(ToLowerCase(url.host)))

\* JavaScript truthiness of an optional string
Truthy(opt) == opt.present /\ opt.value # <<>>

resolvePageIdForSite(idOrUrl, configuredSite) ==
    LET parsed == parsePageInput(idOrUrl)
    IN  IF parsed.threw # "none" THEN parsed
        ELSE IF Truthy(parsed.hostFromUrl)
                /\ parsed.hostFromUrl.value # ToLowerCase(configuredSite)
        THEN Threw("HostMismatch")
        ELSE Returned(parsed.pageId, Absent)

(***************************************************************************)
(* Configuration as readConfig returns it, and requireFetchConfig.         *)
(***************************************************************************)
CONFIG_KEYS == <<"site", "email", "apikey">>

RECURSIVE MissingKeys(_, _)
MissingKeys(config, keys) ==
    IF keys = <<>> THEN <<>>
    ELSE IF ~Truthy(config[Head(keys)])
    THEN <<Head(keys)>> \o MissingKeys(config, Tail(keys))
    ELSE MissingKeys(config, Tail(keys))

\* requireFetchConfig reporting only the first missing key
requireFetchConfigFirstOnly(config) ==
    LET missing == MissingKeys(config, CONFIG_KEYS)
    IN  IF Len(missing) > 0
        THEN [threw |-> "MissingConfiguration", missing |-> <<missing[1]>>]
        ELSE [threw |-> "none", missing |-> <<>>]

requireFetchConfig(config) ==
    LET missing == MissingKeys(config, CONFIG_KEYS)
    IN  IF Len(missing) > 0
        THEN [threw |-> "MissingConfiguration", missing |-> missing]
        ELSE [threw |-> "none", missing |-> <<>>]

(***************************************************************************)
(* The config file.  A stored or in-memory config is a record of three     *)
(* optional strings; a normalizer either gives a value (ok) or throws.     *)
(***************************************************************************)
Ok(v) == [ok |-> TRUE, value |-> v]
Throws == [ok |-> FALSE, value |-> <<>>]

normalizeSite(input) ==
    LET value == Trim(input)
        includesScheme == \E i \in 1..Len(value) : value[i] \in Schemes
        url == IF includesScheme THEN NewURL(value)
               ELSE NewURL(<<"https://">> \o value)
    IN  IF value = <<>> THEN Throws
        ELSE IF ~url.ok \/ url.hostname = <<>> THEN Throws
        ELSE Ok(ToLowerCase(url.host))

\* /^[^@\s]+@[^@\s]+\.[^@\s]+$/
IsEmail(value) ==
    \E at \in 2..Len(value) :
        /\ value[at] = "@"
        /\ \A i \in 1..Len(value) :
              value[i] # Space /\ (value[i] = "@" => i = at)
        /\ \E dot \in (at + 2)..(Len(value) - 1) : value[dot] = "."

normalizeEmail(input) ==
    LET value == Trim(input)
    IN  IF IsEmail(value) THEN Ok(value) ELSE Throws

normalizeApiKey(input) ==
    LET value == Trim(input)
    IN  IF value = <<>> THEN Throws ELSE Ok(value)

normalizeConfigValue(key, rawValue) ==
    IF key = "site" THEN normalizeSite(rawValue)
    ELSE IF key = "email" THEN normalizeEmail(rawValue)
    ELSE normalizeApiKey(rawValue)

normalizeConfig(raw) ==
    LET keys == {"site", "email", "apikey"}
        kept(key) == raw[key].present /\ Trim(raw[key].value) # <<>>
        norm(key) == normalizeConfigValue(key, raw[key].value)
    IN  IF \E key \in keys : kept(key) /\ ~norm(key).ok THEN Throws
        ELSE Ok([key \in keys |->
                    IF kept(key) THEN Some(norm(key).value) ELSE Absent])

\* stored is <<>> when there is no file (ENOENT), <<the stored object>>
\* otherwise
readConfig(stored) ==
    IF stored = <<>> THEN Ok([site |-> Absent, email |-> Absent, apikey |-> Absent])
    ELSE normalizeConfig(stored[1])

\* the file after writeConfig(config), or a throw that leaves it alone
writeConfig(config) ==
    LET normalized == normalizeConfig(config)
    IN  IF normalized.ok THEN Ok(<<normalized.value>>) ELSE Throws

setConfigValue(stored, key, rawValue) ==
    LET config == readConfig(stored)
        value == normalizeConfigValue(key, rawValue)
    IN  IF ~config.ok \/ ~value.ok THEN Throws
        ELSE writeConfig([config.value EXCEPT ![key] = Some(value.value)])

HIDDEN == <<"***hidden***">>

\* maskConfig leaving the apikey as it is
maskConfigCopy(config) == config

maskConfig(config) ==
    IF ~Truthy(config.apikey) THEN config
    ELSE [config EXCEPT !.apikey = Some(HIDDEN)]

\* JSON.stringify(config, null, 2): the members that are present, in order
RECURSIVE Stringify(_, _)
Stringify(config, keys) ==
    IF keys = <<>> THEN <<>>
    ELSE (IF config[Head(keys)].present
          THEN <<Head(keys), "=">> \o config[Head(keys)].value \o <<";">>
          ELSE <<>>) \o Stringify(config, Tail(keys))

(***************************************************************************)
(* The authenticated client: createClient, the URL apiGet requests, the    *)
(* request paths, normalizePaginationLink.                                 *)
(***************************************************************************)
createClient(config) ==
    [baseUrl |-> <<"https://">> \o config.site.value \o <<"/", "wiki">>,
     auth |-> config.email.value \o <<":">> \o config.apikey.value]

IsAbsolute(s) == StartsWith(s, <<"http://">>) \/ StartsWith(s, <<"https://">>)

apiGetUrl(baseUrl, pathOrUrl) ==
    IF IsAbsolute(pathOrUrl) THEN pathOrUrl
    ELSE baseUrl \o (IF StartsWith(pathOrUrl, <<"/">>)
                     THEN pathOrUrl
                     ELSE <<"/">> \o pathOrUrl)

\* "content" stands for rest/api/content, "expand" and "limit" for the
\* fixed query strings
PagePath(pageId) == <<"/", "content", "/">> \o pageId \o <<"?", "expand">>
ChildCommentPath(id) ==
    <<"/", "content", "/">> \o id \o <<"/", "child", "?", "limit">>

\* normalizePaginationLink handing every value on as it is
normalizePaginationLinkAsIs(next) == next

normalizePaginationLink(next) ==
    IF IsAbsolute(next) THEN next
    ELSE IF StartsWith(next, <<"/", "wiki", "/">>)
    THEN Slice(next, Len(<<"/", "wiki">>))
    ELSE next

(***************************************************************************)
(* Comments.  A raw record and a Comment carry the id; the scalar fields   *)
(* that parseComment copies with fallbacks take no part in the traversal.  *)
(***************************************************************************)
parseComment(raw) == [id |-> raw.id, children |-> <<>>]

\* countComments counting the top level only
countCommentsFlat(comments) == Len(comments)

RECURSIVE countComments(_)
countComments(comments) ==
    IF comments = <<>> THEN 0
    ELSE countComments(SubSeq(comments, 1, Len(comments) - 1))
         + 1 + countComments(comments[Len(comments)].children)

(***************************************************************************)
(* The upstream service behind fetch(): one page, a forest of comments     *)
(* under it, a page size for its listings and the style in which it        *)
(* writes _links.next.                                                     *)
(***************************************************************************)
CommentIds == <<"c1", "c2", "c3", "c4", "c5", "c6">>
Cursor == <<"s1", "s2", "s3", "s4", "s5", "s6", "s7", "s8">>
LinkStyles == {"rel", "wiki", "bare", "abs", "absOther"}
SiteHost == <<"a">>
OtherHost == <<"b">>
ThePage == <<"1">>

\* the children of parent p (0 is the page) under the parent function par,
\* in the order of rank
ChildrenOf(par, rank, n, p) ==
    LET S == {j \in 1..n : par[j] = p}
    IN  IF S = {} THEN <<>>
        ELSE LET ord == CHOOSE f \in [1..Cardinality(S) -> S] :
                            \A i, j \in 1..Cardinality(S) :
                                i < j => rank[f[i]] < rank[f[j]]
             IN  [i \in 1..Cardinality(S) |-> CommentIds[ord[i]]]

ForestsOfSize(n) ==
    {[top |-> ChildrenOf(par, rank, n, 0),
      kids |-> [c \in {CommentIds[j] : j \in 1..n} |->
                  ChildrenOf(par, rank, n,
                             CHOOSE j \in 1..n : CommentIds[j] = c)]] :
        par \in {f \in [1..n -> 0..n] : \A j \in 1..n : f[j] < j},
        rank \in Permutations(1..n)}

Forests == UNION {ForestsOfSize(n) : n \in 0..MaxComments}

Upstreams ==
    {[pageId |-> ThePage, top |-> f.top, kids |-> f.kids,
      pageSize |-> ps, linkStyle |-> ls] :
        f \in Forests, ps \in 1..MaxPageSize, ls \in LinkStyles}

\* an upstream whose listings never end: the last page of a listing links
\* to an empty page, and the empty pages link to each other
CyclicUpstreams ==
    {[pageId |-> ThePage, top |-> f.top, kids |-> f.kids,
      pageSize |-> ps, linkStyle |-> "cycle"] :
        f \in Forests, ps \in 1..MaxPageSize}

Min(a, b) == IF a < b THEN a ELSE b

NextLink(up, id, k) ==
    LET rel == ChildCommentPath(id) \o <<"&", Cursor[k]>>
    IN  CASE up.linkStyle = "rel" -> rel
          [] up.linkStyle = "wiki" -> <<"/", "wiki">> \o rel
          [] up.linkStyle = "bare" -> Tail(rel)
          [] up.linkStyle = "cycle" -> rel
          [] up.linkStyle = "abs" ->
                <<"https://">> \o SiteHost \o <<"/", "wiki">> \o rel
          [] up.linkStyle = "absOther" ->
                <<"https://">> \o OtherHost \o <<"/", "wiki">> \o rel

NotFound == [ok |-> FALSE, status |-> 404, id |-> <<>>,
             results |-> <<>>, next |-> Absent]
ServerError == [ok |-> FALSE, status |-> 500, id |-> <<>>,
                results |-> <<>>, next |-> Absent]

HostOf(url) ==
    SubSeq(Tail(url), 1, IndexOfAny(Tail(url), {"/", "?"}, 1) - 1)

\* the start offset a listing URL asks for: 0 when it names no cursor
CursorOf(query) ==
    LET ks == {k \in 1..Len(Cursor) :
                  \E i \in 1..Len(query) : query[i] = Cursor[k]}
    IN  IF ks = {} THEN 0 ELSE CHOOSE k \in ks : TRUE

ListingPage(up, id, items, start) ==
    LET end == Min(start + up.pageSize, Len(items))
    IN  [ok |-> TRUE, status |-> 200, id |-> id,
         results |-> [i \in 1..(end - start) |-> [id |-> <<items[start + i]>>]],
         next |-> IF end < Len(items) THEN Some(NextLink(up, id, end))
                  ELSE IF up.linkStyle = "cycle"
                  THEN Some(NextLink(up, id, IF start = Len(items) + 1
                                             THEN Len(items) + 2
                                             ELSE Len(items) + 1))
                  ELSE Absent]

\* the 200 answer of the upstream to GET url, 404 for a URL it does not serve
Serve(up, url) ==
    LET path == Slice(Tail(url), Len(HostOf(url)))
    IN  IF ~StartsWith(path, <<"/", "wiki", "/", "content", "/">>)
        THEN NotFound
        ELSE LET after == Slice(path, 5)
                 idEnd == IndexOfAny(after, {"/", "?"}, 1)
                 id == SubSeq(after, 1, idEnd - 1)
                 tail == Slice(after, idEnd - 1)
                 known == id = up.pageId
                          \/ (Len(id) = 1 /\ id[1] \in DOMAIN up.kids)
                 items == IF id = up.pageId THEN up.top ELSE up.kids[id[1]]
             IN  IF ~known THEN NotFound
                 ELSE IF tail = <<"?", "expand">> /\ id = up.pageId
                 THEN [ok |-> TRUE, status |-> 200, id |-> id,
                       results |-> <<>>, next |-> Absent]
                 ELSE IF StartsWith(tail, <<"/", "child", "?">>)
                 THEN ListingPage(up, id, items, CursorOf(tail))
                 ELSE NotFound

(***************************************************************************)
(* State of one `atlasctl confluence page get <id-or-url>` run.            *)
(***************************************************************************)
VARIABLES
    config,     \* what readConfig returns: site, email, apikey, each optional
    upstream,   \* the service the requests reach
    idOrUrl,    \* the command's argument
    pc,         \* "idle", "fetch", "page", "list", "done", "failed", "call"
    error,      \* the error the run failed with
    pageId,     \* the page ID resolvePageIdForSite returned
    client,     \* the ApiClient of createClient, <<>> before it is built
    page,       \* the page metadata received, <<>> before
    stack,      \* the loops awaiting fetchReplies: fetchConfluencePage's, then
                \* one per nested fetchReplies call
    pager,      \* the running fetchAllPages call (of the innermost frame)
    inflight,   \* requests sent and not yet answered
    log,        \* URLs requested so far, in order
    failedAt,   \* position in log of the first request answered with a
                \* non-success status, 0 when there is none
    fetched,    \* the fetchAllPages calls that returned: id, URLs, results
    result,     \* <<the PageExport>> once returned, else <<>>
    call,       \* a direct call of an exported function and what it gave
    file,       \* the config file: the site, email, apikey it stores
    lastSet,    \* per key, what normalizeConfigValue gave for the last
                \* setConfigValue that succeeded
    output,     \* what the last config command printed
    link,       \* a _links.next value handed to fetchAllPages' loop
    requested   \* <<the URL>> apiGet then requests, <<>> before

vars == <<config, upstream, idOrUrl, pc, error, pageId, client, page, stack, pager,
          inflight, log, failedAt, fetched, result, call,
          file, lastSet, output, link, requested>>

\* the variables of the config commands and of the direct calls
side == <<file, lastSet, output, link, requested>>

NoError == [kind |-> "none", missing |-> <<>>]
NoPager == [active |-> FALSE, id |-> <<>>, results |-> <<>>, urls |-> <<>>]
NoGiven == [kind |-> "none", host |-> <<>>, lower |-> <<>>,
            inPath |-> Absent, inQuery |-> Absent]
NoCall == [fn |-> "none", site |-> <<>>, ret |-> Threw("none"),
           given |-> NoGiven]

Optional(S) == {Absent} \cup {Some(v) : v \in S}

EmptyConfig == [site |-> Absent, email |-> Absent, apikey |-> Absent]
NoOutput == [command |-> "none", key |-> "none", threw |-> FALSE, text |-> <<>>]

Configs ==
    [site : Optional({SiteHost}),
     email : Optional({<<"u", "@", "a">>}),
     apikey : Optional({<<"k">>})]

CliInputs ==
    {<<"1">>,
     <<"2">>,
     <<"x">>,
     <<"https://", "a", "/", "x", "/", "pages", "/", "1", "/", "x">>,
     <<"https://", "b", "/", "x", "/", "pages", "/", "1">>,
     <<"https://", "b", "/", "x">>,
     <<"foo://", "/", "pages", "/", "1">>}

Init ==
    /\ config \in Configs
    /\ upstream \in Upstreams
    /\ idOrUrl = <<>>
    /\ pc = "idle"
    /\ error = NoError
    /\ pageId = <<>>
    /\ client = <<>>
    /\ page = <<>>
    /\ stack = <<>>
    /\ pager = NoPager
    /\ inflight = <<>>
    /\ log = <<>>
    /\ failedAt = 0
    /\ fetched = <<>>
    /\ result = <<>>
    /\ call = NoCall
    /\ file = <<config>>
    /\ lastSet = EmptyConfig
    /\ output = NoOutput
    /\ link = <<>>
    /\ requested = <<>>

(***************************************************************************)
(* handlePageFetch: readConfig, requireFetchConfig, then                   *)
(* fetchConfluencePage.                                                    *)
(***************************************************************************)
HandlePageFetch(input) ==
    /\ pc = "idle"
    /\ idOrUrl' = input
    /\ LET r == requireFetchConfig(config)
       IN  IF r.threw # "none"
           THEN /\ pc' = "failed"
                /\ error' = [kind |-> r.threw, missing |-> r.missing]
           ELSE /\ pc' = "fetch"
                /\ error' = error
    /\ UNCHANGED <<config, upstream, pageId, client, page, stack, pager,
                   inflight, log, failedAt, fetched, result, call>>
    /\ UNCHANGED side

\* The history of requests keeps the first LogCap of them; an export of an
\* upstream whose listings end issues fewer.
LogCap == 2 * MaxComments + 3

Record(history, url) ==
    IF Len(history) >= LogCap THEN history ELSE Append(history, url)

\* fetch(url, {headers}): the request leaves
Send(urls) ==
    /\ log' = log \o urls
    /\ inflight' = inflight
                    \o [k \in 1..Len(urls) |-> [n |-> Len(log) + k, url |-> urls[k]]]

\* fetchConfluencePage up to its first await: resolve, createClient, GET page
FetchConfluencePage ==
    /\ pc = "fetch"
    /\ LET r == resolvePageIdForSite(idOrUrl, config.site.value)
       IN  IF r.threw # "none"
           THEN /\ pc' = "failed"
                /\ error' = [kind |-> r.threw, missing |-> <<>>]
                /\ UNCHANGED <<pageId, client, inflight, log>>
           ELSE /\ pageId' = r.pageId
                /\ client' = createClient(config)
                /\ Send(<<apiGetUrl(createClient(config).baseUrl,
                                    PagePath(r.pageId))>>)
                /\ pc' = "page"
                /\ error' = error
    /\ UNCHANGED <<config, upstream, idOrUrl, page, stack, pager, failedAt,
                   fetched, result, call>>
    /\ UNCHANGED side

(***************************************************************************)
(* A response arrives.  The upstream answers the request with what it      *)
(* serves at the URL, or with a server error.                              *)
(***************************************************************************)
Responses(url) == {Serve(upstream, url), ServerError}

RemoveAt(s, i) == SubSeq(s, 1, i - 1) \o SubSeq(s, i + 1, Len(s))

\* apiGet without the response.ok test
apiGetNeverThrows(response) == FALSE

\* if (!response.ok) throw
apiGetThrows(response) == ~response.ok

NoteStatus(req, response) ==
    failedAt' = IF ~response.ok /\ failedAt = 0 THEN req.n ELSE failedAt

\* the rejection propagates through every awaiting caller: nothing catches it
ApiGetFails(i, response) ==
    /\ pc \in {"page", "list"}
    /\ apiGetThrows(response)
    /\ NoteStatus(inflight[i], response)
    /\ inflight' = RemoveAt(inflight, i)
    /\ pc' = "failed"
    /\ error' = [kind |-> "Transport", missing |-> <<>>]
    /\ stack' = <<>>
    /\ pager' = NoPager
    /\ UNCHANGED <<config, upstream, idOrUrl, pageId, client, page, log,
                   fetched, result, call>>
    /\ UNCHANGED side

NewFrame(id) == [id |-> id, raw |-> <<>>, i |-> 0, replies |-> <<>>]
NewPager(id) == [active |-> TRUE, id |-> id, results |-> <<>>, urls |-> <<>>]

\* fetchAllPages(path) up to its first await
StartListing(id, frames) ==
    LET url == apiGetUrl(client.baseUrl, ChildCommentPath(id))
    IN  /\ stack' = frames \o <<NewFrame(id)>>
        /\ pager' = [NewPager(id) EXCEPT !.urls = <<url>>]

\* the page metadata arrives; fetchConfluencePage goes on to list the
\* page's comments
PageMetadataArrives(i, response) ==
    /\ pc = "page"
    /\ ~apiGetThrows(response)
    /\ NoteStatus(inflight[i], response)
    /\ page' = <<[id |-> response.id]>>
    /\ StartListing(pageId, <<>>)
    /\ log' = log \o <<apiGetUrl(client.baseUrl, ChildCommentPath(pageId))>>
    /\ inflight' = RemoveAt(inflight, i)
                    \o <<[n |-> Len(log) + 1,
                          url |-> apiGetUrl(client.baseUrl,
                                            ChildCommentPath(pageId))]>>
    /\ pc' = "list"
    /\ UNCHANGED <<config, upstream, idOrUrl, error, pageId, client, fetched,
                   result, call>>
    /\ UNCHANGED side

\* fetchAllPages starting over at the first page when a listing of several
\* pages has run out of pages
fetchAllPagesStepRestart(results, response) ==
    [results |-> IF Truthy(response.next) THEN results \o response.results
                 ELSE <<>>,
     next |-> IF Truthy(response.next)
              THEN Some(normalizePaginationLink(response.next.value))
              ELSE IF results # <<>> THEN Some(ChildCommentPath(response.id))
              ELSE Absent]

\* fetchAllPages keeping only the last page's results
fetchAllPagesStepOverwrite(results, response) ==
    [results |-> response.results,
     next |-> IF Truthy(response.next)
              THEN Some(normalizePaginationLink(response.next.value))
              ELSE Absent]

\* one turn of the loop of fetchAllPages on the page just received
fetchAllPagesStep(results, response) ==
    [results |-> results \o response.results,
     next |-> IF Truthy(response.next)
              THEN Some(normalizePaginationLink(response.next.value))
              ELSE Absent]

\* the reply put in front of its elder siblings
AttachReplyInFront(replies, raw, children) ==
    <<[parseComment(raw) EXCEPT !.children = children]>> \o replies

\* reply.children = await fetchReplies(...); replies.push(reply)
AttachReply(replies, raw, children) ==
    Append(replies, [parseComment(raw) EXCEPT !.children = children])

\* the loop walking rawReplies from its last element to its first
LoopStartsFromEnd(raw, i) == <<raw[Len(raw) - i].id>>

\* the loop starting fetchReplies for all remaining siblings at once
LoopStartsAll(raw, i) == [k \in 1..(Len(raw) - i) |-> raw[i + k].id]

\* for (const raw of rawReplies) { ... await fetchReplies(client, raw.id) }:
\* the calls of fetchReplies started when the loop reaches element i + 1
LoopStarts(raw, i) == <<raw[i + 1].id>>

\* run the loops of the stack until one awaits the next fetchReplies call
\* or the outermost one ends
RECURSIVE Unwind(_)
Unwind(st) ==
    LET f == st[Len(st)]
    IN  IF f.i < Len(f.raw)
        THEN [stack |-> st, calls |-> LoopStarts(f.raw, f.i),
              done |-> FALSE, comments |-> <<>>]
        ELSE IF Len(st) = 1
        THEN [stack |-> <<>>, calls |-> <<>>, done |-> TRUE,
              comments |-> f.replies]
        ELSE LET g == st[Len(st) - 1]
                 g2 == [g EXCEPT
                          !.replies = AttachReply(g.replies, g.raw[g.i + 1],
                                                  f.replies),
                          !.i = g.i + 1]
             IN  Unwind(SubSeq(st, 1, Len(st) - 2) \o <<g2>>)

PageExport(comments) ==
    [page |-> [id |-> page[1].id, url |-> client.baseUrl],
     comments |-> comments,
     meta |-> [totalComments |-> countComments(comments)]]

\* a listing page arrives: fetchAllPages asks for the next one, or returns
\* to the loop of fetchReplies / fetchConfluencePage
ListingPageArrives(i, response) ==
    /\ pc = "list"
    /\ ~apiGetThrows(response)
    /\ NoteStatus(inflight[i], response)
    /\ LET step == fetchAllPagesStep(pager.results, response)
           rest == RemoveAt(inflight, i)
       IN  IF step.next.present
           THEN LET url == apiGetUrl(client.baseUrl, step.next.value)
                IN  /\ pager' = [pager EXCEPT !.results = step.results,
                                              !.urls = Record(@, url)]
                    /\ log' = Record(log, url)
                    /\ inflight' = Append(rest, [n |-> Len(Record(log, url)),
                                                 url |-> url])
                    /\ UNCHANGED <<stack, fetched, result, pc>>
           ELSE LET top == [stack[Len(stack)] EXCEPT !.raw = step.results]
                    u == Unwind(SubSeq(stack, 1, Len(stack) - 1) \o <<top>>)
                    urls == [k \in 1..Len(u.calls) |->
                               apiGetUrl(client.baseUrl,
                                         ChildCommentPath(u.calls[k]))]
                IN  /\ fetched' = Append(fetched,
                                         [id |-> pager.id, urls |-> pager.urls,
                                          results |-> step.results])
                    /\ log' = log \o urls
                    /\ inflight' = rest \o [k \in 1..Len(urls) |->
                                              [n |-> Len(log) + k, url |-> urls[k]]]
                    /\ IF u.done
                       THEN /\ result' = <<PageExport(u.comments)>>
                            /\ pc' = "done"
                            /\ stack' = <<>>
                            /\ pager' = NoPager
                       ELSE /\ StartListing(u.calls[1], u.stack)
                            /\ UNCHANGED <<result, pc>>
    /\ UNCHANGED <<config, upstream, idOrUrl, error, pageId, client, page, call>>
    /\ UNCHANGED side

Next ==
    \/ \E input \in CliInputs : HandlePageFetch(input)
    \/ FetchConfluencePage
    \/ \E i \in 1..Len(inflight) :
          \E response \in Responses(inflight[i].url) : ApiGetFails(i, response)
    \/ \E i \in 1..Len(inflight) :
          \E response \in Responses(inflight[i].url) :
             PageMetadataArrives(i, response)
    \/ \E i \in 1..Len(inflight) :
          \E response \in Responses(inflight[i].url) :
             ListingPageArrives(i, response)

Spec == Init /\ [][Next]_vars

(***************************************************************************)
(* Direct calls of parsePageInput and resolvePageIdForSite, as the tests   *)
(* make them.  An input is put together from parts, and `given` keeps the  *)
(* parts: what kind of text it is, the host as written and lower-cased,    *)
(* the number its path carries after /pages/ and the value of its pageId   *)
(* parameter.                                                              *)
(***************************************************************************)
Pads == {<<>>, <<" ">>}
NumericBodies == {<<"1">>, <<"1", "2">>, <<"2", "1">>}
TextBodies ==
    {<<>>, <<"x">>, <<"1", "x">>, <<"1", " ", "2">>,
     <<"a", "/", "pages", "/", "1">>, <<"https://">>,
     <<"/", "pages", "/", "1">>}

HostCases ==
    {[text |-> <<"a">>, lower |-> <<"a">>],
     [text |-> <<"A">>, lower |-> <<"a">>],
     [text |-> <<"b">>, lower |-> <<"b">>],
     [text |-> <<"a", "B">>, lower |-> <<"a", "b">>],
     [text |-> <<>>, lower |-> <<>>]}

PathCases ==
    {[text |-> <<>>, id |-> Absent],
     [text |-> <<"/", "x">>, id |-> Absent],
     [text |-> <<"/", "pages", "/">>, id |-> Absent],
     [text |-> <<"/", "pages", "/", "1", "x">>, id |-> Absent],
     [text |-> <<"/", "x", "pages", "/", "1">>, id |-> Absent],
     [text |-> <<"/", "pages", "x", "/", "1">>, id |-> Absent],
     [text |-> <<"/", "pages", "/", "1">>, id |-> Some(<<"1">>)],
     [text |-> <<"/", "pages", "/", "1", "2", "/", "x">>,
      id |-> Some(<<"1", "2">>)],
     [text |-> <<"/", "x", "/", "pages", "/", "2", "/">>,
      id |-> Some(<<"2">>)],
     [text |-> <<"/", "pages", "/", "x", "/", "pages", "/", "2">>,
      id |-> Some(<<"2">>)],
     [text |-> <<"/", "pages", "/", "1", "/", "pages", "/", "2">>,
      id |-> Some(<<"1">>)]}

QueryCases ==
    {[text |-> <<>>, id |-> Absent],
     [text |-> <<"?">>, id |-> Absent],
     [text |-> <<"?", "k", "=", "1">>, id |-> Absent],
     [text |-> <<"?", "pageId", "=">>, id |-> Some(<<>>)],
     [text |-> <<"?", "pageId", "=", "x">>, id |-> Some(<<"x">>)],
     [text |-> <<"?", "pageId", "=", "2", "1">>, id |-> Some(<<"2", "1">>)],
     [text |-> <<"?", "k", "=", "1", "&", "pageId", "=", "2">>,
      id |-> Some(<<"2">>)],
     [text |-> <<"?", "pageId", "=", "2", "&", "pageId", "=", "x">>,
      id |-> Some(<<"2">>)]}

\* an https URL names a host; a URL of another scheme need not
UrlHostCases(scheme) ==
    IF scheme \in SpecialSchemes THEN {h \in HostCases : h.text # <<>>}
    ELSE HostCases

Given(kind, h, p, q) ==
    [kind |-> kind, host |-> h.text, lower |-> h.lower,
     inPath |-> p.id, inQuery |-> q.id]

NoHost == [text |-> <<>>, lower |-> <<>>]
NoId == [text |-> <<>>, id |-> Absent]

Cases ==
    {[text |-> b, given |-> Given("numeric", NoHost, NoId, NoId)] :
        b \in NumericBodies}
    \cup {[text |-> b, given |-> Given("text", NoHost, NoId, NoId)] :
              b \in TextBodies}
    \cup UNION {{[text |-> <<scheme>> \o h.text \o p.text \o q.text,
                  given |-> Given("url", h, p, q)] :
                     h \in UrlHostCases(scheme), p \in PathCases,
                     q \in QueryCases} :
                 scheme \in {"https://", "foo://"}}

ConfiguredSites == {<<"a">>, <<"A">>, <<"b">>, <<"a", "b">>}

InitResolve ==
    /\ \E c \in Cases, lead \in Pads, trail \in Pads :
          /\ idOrUrl = lead \o c.text \o trail
          /\ call = [NoCall EXCEPT !.given = c.given]
    /\ config = EmptyConfig
    /\ upstream = [pageId |-> ThePage, top |-> <<>>, kids |-> <<>>,
                   pageSize |-> 1, linkStyle |-> "rel"]
    /\ pc = "call"
    /\ error = NoError
    /\ pageId = <<>>
    /\ client = <<>>
    /\ page = <<>>
    /\ stack = <<>>
    /\ pager = NoPager
    /\ inflight = <<>>
    /\ log = <<>>
    /\ failedAt = 0
    /\ fetched = <<>>
    /\ result = <<>>
    /\ file = EmptyConfig
    /\ lastSet = EmptyConfig
    /\ output = NoOutput
    /\ link = <<>>
    /\ requested = <<>>

CallParsePageInput ==
    /\ pc = "call"
    /\ call.fn = "none"
    /\ call' = [call EXCEPT !.fn = "parsePageInput",
                            !.ret = parsePageInput(idOrUrl)]
    /\ UNCHANGED <<config, upstream, idOrUrl, pc, error, pageId, client, page,
                   stack, pager, inflight, log, failedAt, fetched, result>>
    /\ UNCHANGED side

CallResolvePageIdForSite(configuredSite) ==
    /\ pc = "call"
    /\ call.fn = "none"
    /\ call' = [call EXCEPT !.fn = "resolvePageIdForSite",
                            !.site = configuredSite,
                            !.ret = resolvePageIdForSite(idOrUrl, configuredSite)]
    /\ UNCHANGED <<config, upstream, idOrUrl, pc, error, pageId, client, page,
                   stack, pager, inflight, log, failedAt, fetched, result>>
    /\ UNCHANGED side

NextResolve ==
    \/ CallParsePageInput
    \/ \E site \in ConfiguredSites : CallResolvePageIdForSite(site)

SpecResolve == InitResolve /\ [][NextResolve]_vars

(***************************************************************************)
(* The page export with every request answered in the end, for a complete  *)
(* config, for upstreams whose listings end and for upstreams whose        *)
(* listings never do.                                                      *)
(***************************************************************************)
LiveUpstreams == Upstreams \cup CyclicUpstreams

InitLive ==
    /\ config \in {c \in Configs : requireFetchConfig(c).threw = "none"}
    /\ upstream \in LiveUpstreams
    /\ idOrUrl = <<>>
    /\ pc = "idle"
    /\ error = NoError
    /\ pageId = <<>>
    /\ client = <<>>
    /\ page = <<>>
    /\ stack = <<>>
    /\ pager = NoPager
    /\ inflight = <<>>
    /\ log = <<>>
    /\ failedAt = 0
    /\ fetched = <<>>
    /\ result = <<>>
    /\ call = NoCall
    /\ file = <<config>>
    /\ lastSet = EmptyConfig
    /\ output = NoOutput
    /\ link = <<>>
    /\ requested = <<>>

\* a request in flight is answered: with a server error, or with any
\* response the upstream may give
Answered ==
    \/ \E i \in 1..Len(inflight) : ApiGetFails(i, ServerError)
    \/ \E i \in 1..Len(inflight) :
          \E response \in Responses(inflight[i].url) :
             \/ ApiGetFails(i, response)
             \/ PageMetadataArrives(i, response)
             \/ ListingPageArrives(i, response)

SpecLive == InitLive /\ [][Next]_vars /\ WF_vars(Answered)

(***************************************************************************)
(* The config commands: config set <key> <value>, config get <key>,        *)
(* config show, run one after the other on one config file.  SpecConfig    *)
(* starts without a file; SpecStored starts from any stored file, the      *)
(* hand-edited ones included.                                              *)
(***************************************************************************)
pipeline == <<config, upstream, idOrUrl, pc, error, pageId, client, page,
              stack, pager, inflight, log, failedAt, fetched, result, call>>

Standalone(at) ==
    /\ config = EmptyConfig
    /\ upstream = [pageId |-> ThePage, top |-> <<>>, kids |-> <<>>,
                   pageSize |-> 1, linkStyle |-> "rel"]
    /\ idOrUrl = <<>>
    /\ pc = at
    /\ error = NoError
    /\ pageId = <<>>
    /\ client = <<>>
    /\ page = <<>>
    /\ stack = <<>>
    /\ pager = NoPager
    /\ inflight = <<>>
    /\ log = <<>>
    /\ failedAt = 0
    /\ fetched = <<>>
    /\ result = <<>>
    /\ call = NoCall

SiteValues ==
    {<<"a">>, <<"b">>, <<" ", "A", " ">>, <<"https://", "A", "/", "wiki">>,
     <<"a", ":8443">>, <<"a", ":443">>, <<"http://", "a", ":443">>,
     <<"http://", "a", ":80">>, <<"foo://", "a">>,
     <<>>, <<" ">>, <<"https://">>, <<"foo://", "/", "a">>, <<"a", " ", "b">>}

EmailValues ==
    {<<"u", "@", "a", ".", "c">>, <<"v", "@", "a", ".", "c">>,
     <<" ", "u", "@", "a", ".", "c", " ">>,
     <<"u", "@", "a">>, <<"u">>, <<"@", "a", ".", "c">>,
     <<"u", " ", "@", "a", ".", "c">>, <<"u", "@", "a", ".">>, <<>>}

ApiKeyValues == {<<"k">>, <<"k2">>, <<" ", "k", " ">>, HIDDEN, <<>>, <<" ">>}

ValuesOf(key) ==
    IF key = "site" THEN SiteValues
    ELSE IF key = "email" THEN EmailValues
    ELSE ApiKeyValues

StoredFiles ==
    {<<>>} \cup
    {<<c>> : c \in [site : Optional({<<"a">>, <<" ", "A">>, <<"https://">>}),
                    email : Optional({<<"u", "@", "a", ".", "c">>, <<"u">>}),
                    apikey : Optional({<<"k">>, <<"k2">>, <<" ", "k">>, <<" ">>})]}

InitConfig ==
    /\ Standalone("config")
    /\ file = <<>>
    /\ lastSet = EmptyConfig
    /\ output = NoOutput
    /\ link = <<>>
    /\ requested = <<>>

InitStored ==
    /\ Standalone("config")
    /\ file \in StoredFiles
    /\ lastSet = EmptyConfig
    /\ output = NoOutput
    /\ link = <<>>
    /\ requested = <<>>

HandleConfigSet(key, value) ==
    /\ pc = "config"
    /\ LET written == setConfigValue(file, key, value)
       IN  IF written.ok
           THEN /\ file' = written.value
                /\ lastSet' = [lastSet EXCEPT
                                 ![key] = Some(normalizeConfigValue(key, value).value)]
                /\ output' = [command |-> "set", key |-> key, threw |-> FALSE,
                              text |-> <<"Saved", key>>]
           ELSE /\ output' = [command |-> "set", key |-> key, threw |-> TRUE,
                              text |-> <<>>]
                /\ UNCHANGED <<file, lastSet>>
    /\ UNCHANGED <<link, requested>>
    /\ UNCHANGED pipeline

handleConfigGet(stored, key) ==
    LET read == readConfig(stored)
    IN  IF ~read.ok
        THEN [command |-> "get", key |-> key, threw |-> TRUE,
              text |-> <<"Invalid config">>]
        ELSE IF ~Truthy(read.value[key])
        THEN [command |-> "get", key |-> key, threw |-> TRUE,
              text |-> <<"not set">>]
        ELSE IF key = "apikey"
        THEN [command |-> "get", key |-> key, threw |-> FALSE, text |-> HIDDEN]
        ELSE [command |-> "get", key |-> key, threw |-> FALSE,
              text |-> read.value[key].value]

handleConfigShow(stored) ==
    LET read == readConfig(stored)
    IN  IF ~read.ok
        THEN [command |-> "show", key |-> "none", threw |-> TRUE,
              text |-> <<"Invalid config">>]
        ELSE [command |-> "show", key |-> "none", threw |-> FALSE,
              text |-> Stringify(maskConfig(read.value), CONFIG_KEYS)]

HandleConfigGet(key) ==
    /\ pc = "config"
    /\ output' = handleConfigGet(file, key)
    /\ UNCHANGED <<file, lastSet, link, requested>>
    /\ UNCHANGED pipeline

HandleConfigShow ==
    /\ pc = "config"
    /\ output' = handleConfigShow(file)
    /\ UNCHANGED <<file, lastSet, link, requested>>
    /\ UNCHANGED pipeline

NextConfig ==
    \/ \E key \in {"site", "email", "apikey"} :
          \E value \in ValuesOf(key) : HandleConfigSet(key, value)
    \/ \E key \in {"site", "email", "apikey"} : HandleConfigGet(key)
    \/ HandleConfigShow

SpecConfig == InitConfig /\ [][NextConfig]_vars

SpecStored == InitStored /\ [][NextConfig]_vars

(***************************************************************************)
(* One turn of the loop of fetchAllPages on its own: a _links.next value   *)
(* is normalized and handed to apiGet, which forms the URL it requests.    *)
(***************************************************************************)
LinkBase ==
    createClient([site |-> Some(SiteHost), email |-> Some(<<"u", "@", "a">>),
                  apikey |-> Some(<<"k">>)]).baseUrl

LinkHeads ==
    {<<>>, <<"https://", "a">>, <<"http://", "a">>, <<"https://", "b">>,
     <<"HTTPS://", "a">>}

LinkPaths ==
    {<<"/", "wiki", "/", "content">>,
     <<"/", "wiki", "/", "wiki", "/", "content">>,
     <<"/", "wiki">>,
     <<"/", "wikis", "/", "content">>,
     <<"/", "content">>,
     <<"/">>,
     <<"content">>,
     <<"wiki", "/", "content">>}

LinkQueries == {<<>>, <<"?", "limit">>, <<"?", "limit", "&", "s1">>}

LinkValues ==
    {h \o p \o q : h \in LinkHeads, p \in LinkPaths, q \in LinkQueries}

InitLink ==
    /\ Standalone("link")
    /\ file = <<>>
    /\ lastSet = EmptyConfig
    /\ output = NoOutput
    /\ link \in LinkValues
    /\ requested = <<>>

\* next = normalizePaginationLink(page._links.next); apiGet(next)
FollowLink ==
    /\ pc = "link"
    /\ requested = <<>>
    /\ requested' = <<apiGetUrl(LinkBase, normalizePaginationLink(link))>>
    /\ UNCHANGED <<file, lastSet, output, link>>
    /\ UNCHANGED pipeline

SpecLink == InitLink /\ [][FollowLink]_vars

(***************************************************************************)
(* Properties.                                                             *)
(***************************************************************************)
\* fetchConfluencePage has run its synchronous prefix
Entered == pc \in {"page", "list", "done", "failed"}
                /\ error.kind # "MissingConfiguration"

\* the argument is a URL that yields a page ID and names host h
InputUrlHost == parsePageInput(idOrUrl).hostFromUrl
InputIsPageUrl ==
    parsePageInput(idOrUrl).threw = "none" /\ InputUrlHost.present

\* C1: whenever fetchConfluencePage is given a page URL whose host differs
\* from the configured site, it fails with the host-mismatch error and no
\* HTTP request has been issued.
C1_HostCheckBeforeNetwork ==
    (Entered /\ InputIsPageUrl /\ InputUrlHost.value # config.site.value)
        => (pc = "failed" /\ error.kind = "HostMismatch" /\ log = <<>>)

\* C2: every HTTP request of the export is sent to the configured site.
C2_RequestsTargetConfiguredSite ==
    \A k \in 1..Len(log) : HostOf(log[k]) = config.site.value

\* C3: for an input that yields a page ID, resolvePageIdForSite fails with
\* the host-mismatch error if and only if the input is a URL whose host
\* differs, letter case aside, from configuredSite; otherwise it returns
\* the page ID, and a bare numeric input never raises a host mismatch.
C3_HostMismatchIffHostsDiffer ==
    (call.fn = "resolvePageIdForSite" /\ parsePageInput(idOrUrl).threw = "none")
        => LET differs == call.given.kind = "url"
                          /\ call.given.lower # ToLowerCase(call.site)
           IN  /\ (call.ret.threw = "HostMismatch") <=> differs
               /\ ~differs => (call.ret.threw = "none"
                               /\ call.ret.pageId
                                    = parsePageInput(idOrUrl).pageId)
               /\ call.given.kind = "numeric" => call.ret.threw # "HostMismatch"

\* the nodes of a comment tree, each named by its path of sibling indexes
RECURSIVE NodePaths(_)
NodePaths(comments) ==
    UNION {{<<k>>} \cup {<<k>> \o q : q \in NodePaths(comments[k].children)} :
              k \in 1..Len(comments)}

\* C4: meta.totalComments of a returned PageExport is the number of nodes
\* reachable from comments through children; a page without comments gives
\* an empty comments sequence and totalComments 0.
C4_TotalCommentsCountsAllNodes ==
    result # <<>> =>
        /\ result[1].meta.totalComments = Cardinality(NodePaths(result[1].comments))
        /\ upstream.top = <<>> =>
              (result[1].comments = <<>> /\ result[1].meta.totalComments = 0)

C4_Witness ==
    /\ result # <<>>
    /\ result[1].meta.totalComments = 3
    /\ Len(result[1].comments) = 1
    /\ Len(result[1].comments[1].children) = 1

\* what the upstream lists under id, and the pages it cuts the list into
ItemsOf(id) == IF id = upstream.pageId THEN upstream.top ELSE upstream.kids[id[1]]
PageCount(id) ==
    IF ItemsOf(id) = <<>> THEN 1
    ELSE (Len(ItemsOf(id)) + upstream.pageSize - 1) \div upstream.pageSize

\* C5: a fetchAllPages call that returns has requested the pages of its
\* listing one after the other, each once and none after the page without
\* a next link, and returns their results concatenated in arrival order.
C5_FetchAllPagesConcatenates ==
    \A k \in 1..Len(fetched) :
        LET e == fetched[k]
        IN  /\ e.results = [j \in 1..Len(ItemsOf(e.id)) |-> [id |-> <<ItemsOf(e.id)[j]>>]]
            /\ Len(e.urls) = PageCount(e.id)
            /\ \A j \in 1..Len(e.urls) :
                  Serve(upstream, e.urls[j])
                    = ListingPage(upstream, e.id, ItemsOf(e.id),
                                  (j - 1) * upstream.pageSize)

C5_Witness ==
    \E k \in 1..Len(fetched) :
        /\ Len(fetched[k].urls) >= 2
        /\ Len(fetched[k].results) >= 3
        /\ upstream.linkStyle = "wiki"

\* C6: once a request has been answered with a non-success status the run
\* has failed with the transport error, has returned nothing, holds no
\* partial list, and the failed request is the last one it ever issued.
C6_HttpErrorAbortsExport ==
    failedAt # 0 =>
        /\ pc = "failed"
        /\ error.kind = "Transport"
        /\ result = <<>>
        /\ stack = <<>> /\ ~pager.active
        /\ inflight = <<>>
        /\ Len(log) = failedAt

C6_Witness ==
    /\ failedAt >= 4
    /\ pc = "failed"
    /\ Len(fetched) >= 2
    /\ fetched[1].results # <<>>

\* C7: at most one request is in flight, and it is the one issued last:
\* every earlier request has been answered.
C7_OneRequestInFlight ==
    /\ Len(inflight) <= 1
    /\ \A k \in 1..Len(inflight) : inflight[k].n = Len(log)

C7_Witness ==
    /\ Len(inflight) = 1
    /\ Len(stack) = 2
    /\ stack[1].i = 1
    /\ Len(stack[1].raw) >= 2

\* the tree of comments the upstream holds under the listed ids
RECURSIVE UpstreamTree(_)
UpstreamTree(ids) ==
    [k \in 1..Len(ids) |->
        [id |-> <<ids[k]>>, children |-> UpstreamTree(upstream.kids[ids[k]])]]

\* C8: the returned comment tree is the upstream tree: at every level the
\* ids in the order of the upstream listing of that parent, and an empty
\* children sequence for a comment without replies.
C8_TreeMirrorsUpstream ==
    result # <<>> => result[1].comments = UpstreamTree(upstream.top)

C8_Witness ==
    /\ result # <<>>
    /\ Len(result[1].comments) = 2
    /\ result[1].comments[1].id = <<"c2">>
    /\ result[1].comments[2].id = <<"c1">>
    /\ Len(result[1].comments[2].children) = 1
    /\ result[1].comments[1].children = <<>>

InvalidInput == {"InvalidIdentifier", "NoPageId"}

\* C9: parsePageInput returns the trimmed input, without a host, when it
\* is all digits; for a URL it returns the number after the first /pages/
\* of the path, else the pageId parameter, with the host lower-cased; it
\* fails with the invalid-input error when the input is no URL or neither
\* place gives a number.
C9_ParsePageInputRule ==
    call.fn = "parsePageInput" =>
        LET g == call.given
            r == call.ret
            want == IF g.inPath.present THEN g.inPath ELSE g.inQuery
            numeric == want.present /\ want.value # <<>>
                       /\ \A k \in 1..Len(want.value) : want.value[k] \in {"1", "2"}
        IN  CASE g.kind = "numeric" ->
                    /\ r.threw = "none"
                    /\ ~r.hostFromUrl.present
                    /\ \E lead \in Pads, trail \in Pads :
                          idOrUrl = lead \o r.pageId \o trail
                    /\ r.pageId \in NumericBodies
              [] g.kind = "url" ->
                    IF numeric
                    THEN r = Returned(want.value, Some(g.lower))
                    ELSE r.threw \in InvalidInput
              [] OTHER -> r.threw \in InvalidInput

C9_Witness ==
    /\ call.fn = "parsePageInput"
    /\ call.given.kind = "url"
    /\ call.given.inPath.present
    /\ call.given.inQuery.present
    /\ call.given.inPath.value # call.given.inQuery.value
    /\ call.given.host # call.given.lower
    /\ call.ret.threw = "none"
    /\ idOrUrl[1] = " "

UnsetKeys == {k \in {"site", "email", "apikey"} : ~config[k].present}

\* C10: the command fails with the missing-configuration error exactly when
\* one of site, email, apikey is unset, the error names exactly the unset
\* keys, and no request is issued unless all three are set.
C10_MissingConfiguration ==
    pc # "idle" =>
        /\ (error.kind = "MissingConfiguration") <=> (UnsetKeys # {})
        /\ {error.missing[k] : k \in 1..Len(error.missing)} = UnsetKeys
        /\ UnsetKeys # {} => (pc = "failed" /\ log = <<>>)

C10_Witness ==
    /\ pc = "failed"
    /\ error.kind = "MissingConfiguration"
    /\ error.missing = <<"email", "apikey">>

C11_Frame ==
    [][\A key \in {"site", "email", "apikey"} :
         output'.command = "set" /\ output'.key = key =>
           IF output'.threw THEN file' = file
           ELSE \A other \in {"site", "email", "apikey"} \ {key} :
                  readConfig(file').value[other] = readConfig(file).value[other]]_vars

\* the stored file with its apikey member replaced
WithApiKey(stored, key) == <<[stored[1] EXCEPT !.apikey = Some(key)]>>

\* a command that reads the apikey has just printed
ReadsApiKey ==
    /\ pc = "config"
    /\ ~output.threw
    /\ \/ output.command = "show"
       \/ output.command = "get" /\ output.key = "apikey"

ApiKeyIsSet == readConfig(file).ok /\ Truthy(readConfig(file).value.apikey)

\* C12: whenever an apikey is set, config get apikey and config show (and
\* maskConfig) put the literal ***hidden*** in place of the stored apikey,
\* so what they print is the same for any two stored apikey values
C12_ApiKeyRedacted ==
    ReadsApiKey /\ ApiKeyIsSet =>
      LET read == readConfig(file).value
          hidden == [read EXCEPT !.apikey = Some(HIDDEN)]
      IN  /\ maskConfig(read) = hidden
          /\ output.command = "get" => output.text = HIDDEN
          /\ output.command = "show" => output.text = Stringify(hidden, CONFIG_KEYS)
          /\ \A other \in ApiKeyValues :
                normalizeApiKey(other).ok =>
                  /\ maskConfig([read EXCEPT !.apikey = Some(other)]) = maskConfig(read)
                  /\ output.command = "get" =>
                        handleConfigGet(WithApiKey(file, other), "apikey") = output
                  /\ output.command = "show" =>
                        handleConfigShow(WithApiKey(file, other)) = output

\* config show has printed a stored config that holds a site and an apikey
C12_Witness ==
    /\ ReadsApiKey /\ ApiKeyIsSet
    /\ output.command = "show"
    /\ readConfig(file).value.site = Some(<<"a">>)
    /\ file[1].apikey = Some(<<" ", "k">>)
    /\ output.text = <<"site", "=", "a", ";", "apikey", "=", "***hidden***", ";">>

\* the ids of a comment tree, a parent before its replies and a comment's
\* whole subtree before its next sibling
RECURSIVE Preorder(_)
Preorder(comments) ==
    IF comments = <<>> THEN <<>>
    ELSE <<Head(comments).id>> \o Preorder(Head(comments).children)
            \o Preorder(Tail(comments))

RECURSIVE Flatten(_)
Flatten(seqs) == IF seqs = <<>> THEN <<>> ELSE Head(seqs) \o Flatten(Tail(seqs))

IsPrefix(s, t) == Len(s) <= Len(t) /\ s = SubSeq(t, 1, Len(s))

\* the ids whose listing has been started, in the order of the starts
ListingsStarted ==
    [k \in 1..Len(fetched) |-> fetched[k].id]
        \o (IF pager.active THEN <<pager.id>> ELSE <<>>)

\* the requests of the listings, listing by listing in the order of the starts
ListingRequests ==
    Flatten([k \in 1..Len(fetched) |-> fetched[k].urls]) \o pager.urls

\* C13: the reply traversal is depth-first with one paginated listing per
\* comment: the listings are started in the pre-order of the tree (the page
\* first, a parent before its replies, a comment's whole subtree before its
\* next sibling), each id once; the requests of one listing are consecutive,
\* and every earlier request has completed when a request is issued; the
\* final tree has exactly one listing for each of its nodes
C13_DepthFirstOneListingEach ==
    Entered =>
      /\ IsPrefix(ListingsStarted, <<pageId>> \o Preorder(UpstreamTree(upstream.top)))
      /\ pc # "failed" => Tail(log) = ListingRequests
      /\ \A k \in 1..Len(inflight) : inflight[k].n = Len(log)
      /\ \A k \in 1..Len(fetched) : fetched[k].urls # <<>>
      /\ result # <<>> =>
            ListingsStarted = <<pageId>> \o Preorder(result[1].comments)

\* the export of a page with two top-level comments, the first with a reply,
\* listed one item per page
C13_Witness ==
    /\ result # <<>>
    /\ upstream.pageSize = 1
    /\ Len(result[1].comments) = 2
    /\ Len(result[1].comments[1].children) = 1
    /\ Len(ListingsStarted) = 4
    /\ Len(log) > 5

\* fetchConfluencePage has been called and awaits a response
Running == pc \in {"page", "list"}

\* fetchConfluencePage has returned a PageExport or failed with an error
Terminated == pc \in {"done", "failed"}

\* every listing of the upstream ends: its last page carries no _links.next
ChainsEnd == upstream.linkStyle # "cycle"

\* C14 as stated: the reply tree being finite and every request being
\* answered, fetchConfluencePage eventually returns or fails, for any
\* _links.next values the upstream returns
C14_TerminatesForAnyLinks == Running ~> Terminated

\* C14: the reply tree being finite, every request being answered and every
\* listing ending (some page of it carries no _links.next), a call of
\* fetchConfluencePage eventually returns a PageExport or fails
C14_TerminatesWhenListingsEnd == (Running /\ ChainsEnd) ~> Terminated

\* an export that returned after following next links through a tree with
\* replies
C14_Witness ==
    /\ pc = "done"
    /\ ChainsEnd
    /\ upstream.pageSize = 1
    /\ Len(upstream.top) = 2
    /\ \E k \in 1..Len(fetched) : Len(fetched[k].urls) = 2
    /\ Len(fetched) = MaxComments + 1

\* an absolute http(s) URL, whatever the case of its scheme
IsHttpUrl(value) ==
    value # <<>> /\ value[1] \in {"http://", "https://", "HTTPS://"}

WikiPrefix == <<"/", "wiki">>

\* the number of places where /wiki/wiki occurs in url
TwiceAt(url) ==
    {i \in 1..Len(url) : StartsWith(Slice(url, i - 1), WikiPrefix \o WikiPrefix)}

\* C15 as stated: an absolute http(s) URL is requested as-is; a value
\* beginning with /wiki/ is requested as the base URL followed by the value
\* without its /wiki, the URL never containing the prefix twice; any other
\* value is appended to the base URL unchanged
C15_LinkRuleAsStated ==
    requested # <<>> =>
      LET url == requested[1]
      IN  IF IsHttpUrl(link) THEN url = link
          ELSE IF StartsWith(link, WikiPrefix \o <<"/">>)
          THEN url = LinkBase \o Slice(link, Len(WikiPrefix)) /\ TwiceAt(url) = {}
          ELSE url = LinkBase \o link

\* C15: a value starting with http:// or https:// in lower case is requested
\* as-is; a value beginning with /wiki/ loses that one /wiki, so the request
\* goes to the base URL followed by the remainder, which is the value
\* resolved against the origin of the site; any other value is appended to
\* the base URL, after a / when it does not begin with one
C15_LinkRule ==
    requested # <<>> =>
      LET url == requested[1]
          origin == <<"https://">> \o SiteHost
      IN  IF link[1] \in {"http://", "https://"} THEN url = link
          ELSE IF StartsWith(link, WikiPrefix \o <<"/">>)
          THEN /\ url = LinkBase \o Slice(link, Len(WikiPrefix))
               /\ url = origin \o link
          ELSE IF link[1] = "/" THEN url = LinkBase \o link
          ELSE url = LinkBase \o <<"/">> \o link

\* a link under /wiki/ carrying a cursor has been turned into its request
C15_Witness ==
    /\ link = <<"/", "wiki", "/", "content", "?", "limit", "&", "s1">>
    /\ requested = <<<<"https://", "a", "/", "wiki", "/", "content",
                       "?", "limit", "&", "s1">>>>
====
